---- MODULE Spec2Model ----
(***************************************************************************)
(* The YouTube Analyzer single-page view (devtronz/yt-frontend).           *)
(*                                                                         *)
(* The repository holds four near-duplicate variants of the App component: *)
(*   "insights"   src/unnamed/part_000 lines   1-166 (health score, top 3) *)
(*   "logchart"   src/unnamed/part_000 lines 168-400 (logarithmic chart)   *)
(*   "normchart"  src/unnamed/part_001               (normalised chart)    *)
(*   "basic"      src/src/App.jsx                    (earnings, growth)    *)
(* A deployment runs one of them; `variant` says which.                    *)
(*                                                                         *)
(* JavaScript runs every handler and every continuation of an async        *)
(* function to completion, and React applies the state setters called in   *)
(* one such run together (automatic batching), so each action below is one *)
(* run: the click handler up to its first await, or the continuation that  *)
(* a settled fetch resumes.  The component renders after every run; `view` *)
(* is what that render derives.                                            *)
(*                                                                         *)
(* JavaScript numbers are modelled as integers plus NaN, Infinity and      *)
(* -Infinity; fractional backend values are outside the model.             *)
(***************************************************************************)
EXTENDS Integers, Sequences, FiniteSets

VARIABLES variant, query, channel, videos, loading, error,
          act, fetches, alerts, last, view

vars == <<variant, query, channel, videos, loading, error,
          act, fetches, alerts, last, view>>

(***************************************************************************)
(* Bounds of the model.                                                    *)
(***************************************************************************)
\* analyze invocations (clicks) in one behaviour
MaxCalls == 2
\* length of a video list fed to the ranker
MaxVideos == 4

(***************************************************************************)
(* JavaScript values of the backend's numeric-or-unknown fields.           *)
(***************************************************************************)
Undef == [t |-> "undefined", n |-> 0]
Null == [t |-> "null", n |-> 0]
NaN == [t |-> "nan", n |-> 0]
Inf == [t |-> "inf", n |-> 0]
NInf == [t |-> "ninf", n |-> 0]
\* a non-empty string that is not a number, such as "abc"
Text == [t |-> "text", n |-> 0]
Num(k) == [t |-> "num", n |-> k]
\* the decimal text of k, such as "1200"
NumText(k) == [t |-> "numtext", n |-> k]

\* Number(x)
ToNumber(x) ==
  CASE x.t = "undefined" -> NaN
    [] x.t = "null" -> Num(0)
    [] x.t = "text" -> NaN
    [] x.t = "numtext" -> Num(x.n)
    [] OTHER -> x

\* the truthiness `x || y` tests
Truthy(x) ==
  /\ x.t \notin {"undefined", "null", "nan"}
  /\ ~(x.t = "num" /\ x.n = 0)

\* x || y
Or(x, y) == IF Truthy(x) THEN x ELSE y

\* x > 0 on a JavaScript number
Gt0(x) == x.t = "inf" \/ (x.t = "num" /\ x.n > 0)

IsFinite(x) == x.t = "num"

(***************************************************************************)
(* Channel and video payloads.  `src` is the query of the request the      *)
(* backend answered with the payload.                                      *)
(***************************************************************************)
NoChannel == [kind |-> "null", src |-> "",
              subscribers |-> Undef, views |-> Undef, videos |-> Undef]

ChannelRecord(q, s, v, n) ==
  [kind |-> "object", src |-> q, subscribers |-> s, views |-> v, videos |-> n]

VideoRecord(q, id, v) == [src |-> q, videoId |-> id, views |-> v]

\* a JavaScript value held in `videos`: an array of records, or something else
Array(items) == [kind |-> "array", items |-> items]
NonArray(k) == [kind |-> k, items |-> <<>>]
EmptyArray == Array(<<>>)

\* channel?.f
Field(ch, f) == IF ch.kind = "null" THEN Undef ELSE ch[f]

(***************************************************************************)
(* NumericCoercion, as each variant writes it.                             *)
(***************************************************************************)
VInsights == "insights"
VLogChart == "logchart"
VNormChart == "normchart"
VBasic == "basic"
Variants == {VInsights, VLogChart, VNormChart, VBasic}

\* Number(channel?.f) || 0
CoerceThenDefault(x) == Or(ToNumber(x), Num(0))

\* Number(channel?.f || 0)
CoerceDefaultFirst(x) == ToNumber(Or(x, Num(0)))

\* subs, views, vids of a render
Coerce(v, x) ==
  CASE v = VLogChart -> CoerceDefaultFirst(x)
    [] v = VBasic -> ToNumber(x)
    [] OTHER -> CoerceThenDefault(x)

(***************************************************************************)
(* MetricsDeriver.                                                         *)
(***************************************************************************)
\* Math.round(a / b) for integers a and b > 0: floor(a/b + 1/2)
RoundDiv(a, b) == (2 * a + b) \div (2 * b)

\* d > 0 ? Math.round(x / d) : 0
PerVideo(x, d) ==
  IF ~Gt0(d) THEN Num(0)
  ELSE IF d.t = "inf"
       THEN (IF x.t = "num" THEN Num(0) ELSE NaN)
       ELSE (IF x.t = "num" THEN Num(RoundDiv(x.n, d.n)) ELSE x)

\* Math.round(a / 1000 + b / 50 + c / 10)
RoundSum(a, b, c) ==
  LET ts == {a.t, b.t, c.t} IN
  CASE "nan" \in ts -> NaN
    [] "inf" \in ts /\ "ninf" \in ts -> NaN
    [] "inf" \in ts -> Inf
    [] "ninf" \in ts -> NInf
    [] OTHER -> Num((a.n + 20 * b.n + 100 * c.n + 500) \div 1000)

\* Math.min(100, x)
Min100(x) ==
  CASE x.t = "nan" -> NaN
    [] x.t = "inf" -> Num(100)
    [] x.t = "ninf" -> NInf
    [] OTHER -> Num(IF x.n < 100 THEN x.n ELSE 100)

healthScore(avgViews, subsPerVideo, vids) ==
  Min100(RoundSum(avgViews, subsPerVideo, vids))

(***************************************************************************)
(* GrowthPredictor (the "basic" variant).                                  *)
(***************************************************************************)
\* Math.floor(x * p / 100) for p = 1 and p = 3
FloorPercent(x, p) ==
  IF x.t = "num" THEN Num((p * x.n) \div 100) ELSE x

predictGrowth(subs) ==
  [min |-> FloorPercent(subs, 1), max |-> FloorPercent(subs, 3)]

(***************************************************************************)
(* VideoRanker.                                                            *)
(***************************************************************************)
\* the sign of b.views - a.views, NaN counting as 0 as Array.prototype.sort
\* reads a comparator's result
CompareViews(a, b) ==
  LET x == ToNumber(b.views)
      y == ToNumber(a.views) IN
  CASE x.t = "nan" \/ y.t = "nan" -> 0
    [] x.t = y.t /\ x.t \in {"inf", "ninf"} -> 0
    [] x.t = "inf" \/ y.t = "ninf" -> 1
    [] x.t = "ninf" \/ y.t = "inf" -> -1
    [] OTHER -> IF x.n > y.n THEN 1 ELSE IF x.n < y.n THEN -1 ELSE 0

\* videos.filter(v => Number(v.views) > 0)
RECURSIVE FilterPositive(_)
FilterPositive(s) ==
  IF s = <<>> THEN <<>>
  ELSE (IF Gt0(ToNumber(Head(s).views)) THEN <<Head(s)>> ELSE <<>>)
       \o FilterPositive(Tail(s))

\* x put in front of the elements it ties with: what an unstable sort may do
RECURSIVE InsertUnstable(_, _)
InsertUnstable(s, x) ==
  IF s = <<>> THEN <<x>>
  ELSE IF CompareViews(s[Len(s)], x) >= 0
       THEN InsertUnstable(SubSeq(s, 1, Len(s) - 1), x) \o <<s[Len(s)]>>
       ELSE s \o <<x>>

\* x put into the sorted s behind every element it does not have to precede
RECURSIVE InsertStable(_, _)
InsertStable(s, x) ==
  IF s = <<>> THEN <<x>>
  ELSE IF CompareViews(s[Len(s)], x) > 0
       THEN InsertStable(SubSeq(s, 1, Len(s) - 1), x) \o <<s[Len(s)]>>
       ELSE s \o <<x>>

\* Array.prototype.sort with the comparator (a, b) => b.views - a.views:
\* stable (ECMAScript 2019)
RECURSIVE SortByViews(_)
SortByViews(s) ==
  IF s = <<>> THEN <<>>
  ELSE InsertStable(SortByViews(SubSeq(s, 1, Len(s) - 1)), s[Len(s)])

\* .slice(0, 3)
Slice3(s) == SubSeq(s, 1, IF Len(s) < 3 THEN Len(s) ELSE 3)

topVideos(vd) == Slice3(SortByViews(FilterPositive(vd.items)))

(***************************************************************************)
(* What a render derives from the session state.  A field a variant does   *)
(* not compute is NotRendered.                                             *)
(***************************************************************************)
NotRendered == [t |-> "none", n |-> 0]
NoGrowth == [min |-> NotRendered, max |-> NotRendered]

(***************************************************************************)
(* ChartDataBuilder.  A bar is a JavaScript number n / d.                  *)
(***************************************************************************)
Bar(x) == [t |-> x.t, n |-> x.n, d |-> 1]
NoChart == [shown |-> FALSE, data |-> <<>>]
Chart(a, b, c) == [shown |-> TRUE, data |-> <<a, b, c>>]

\* Math.max(x / k, 1)
MaxDivOne(x, k) ==
  CASE x.t = "num" /\ x.n > k -> [t |-> "num", n |-> x.n, d |-> k]
    [] x.t \in {"nan", "inf"} -> Bar(x)
    [] OTHER -> Bar(Num(1))

\* Math.max(x * k, 1)
MaxTimesOne(x, k) ==
  CASE x.t = "num" /\ x.n * k > 1 -> Bar(Num(x.n * k))
    [] x.t \in {"nan", "inf"} -> Bar(x)
    [] OTHER -> Bar(Num(1))

\* subs + views + vids > 0
SumGt0(a, b, c) ==
  LET ts == {a.t, b.t, c.t} IN
  CASE "nan" \in ts -> FALSE
    [] "inf" \in ts -> "ninf" \notin ts
    [] "ninf" \in ts -> FALSE
    [] OTHER -> a.n + b.n + c.n > 0

\* the chart panel of a render: chartData, and whether the panel is rendered
chartData(v, ch) ==
  LET subs == Coerce(v, Field(ch, "subscribers"))
      views == Coerce(v, Field(ch, "views"))
      vids == Coerce(v, Field(ch, "videos")) IN
  CASE v = VLogChart ->
         IF Gt0(subs) \/ Gt0(views) \/ Gt0(vids)
         THEN Chart(Bar(subs), Bar(views), Bar(vids)) ELSE NoChart
    [] v = VNormChart ->
         IF SumGt0(subs, views, vids)
         THEN Chart(MaxDivOne(subs, 1000), MaxDivOne(views, 100000),
                    MaxTimesOne(vids, 10))
         ELSE NoChart
    [] v = VBasic ->
         IF ch.kind # "null"
         THEN Chart(Bar(subs), Bar(views), Bar(vids)) ELSE NoChart
    [] OTHER -> NoChart

\* the render of the three variants that derive metrics and a top-3 list
RenderMetrics(v, ch, vd, ld, er) ==
  LET subs == Coerce(v, Field(ch, "subscribers"))
      views == Coerce(v, Field(ch, "views"))
      vids == Coerce(v, Field(ch, "videos"))
      avgViews == PerVideo(views, vids)
      subsPerVideo == PerVideo(subs, vids)
      top == topVideos(vd)
  IN [fault |-> vd.kind # "array",
      subs |-> subs, views |-> views, vids |-> vids,
      avgViews |-> avgViews, subsPerVideo |-> subsPerVideo,
      healthScore |-> healthScore(avgViews, subsPerVideo, vids),
      topVideos |-> top,
      videoPanel |-> Len(top) > 0,
      growth |-> NoGrowth,
      chart |-> chartData(v, ch),
      showLoading |-> ld, showError |-> er # "",
      showChannel |-> ch.kind # "null"]

\* the render of src/App.jsx: videos.length > 0 && videos.map(...)
RenderBasic(v, ch, vd, ld, er) ==
  [fault |-> vd.kind \in {"null", "string"},
   subs |-> NotRendered, views |-> NotRendered, vids |-> NotRendered,
   avgViews |-> NotRendered, subsPerVideo |-> NotRendered,
   healthScore |-> NotRendered,
   topVideos |-> <<>>,
   videoPanel |-> vd.kind = "array" /\ Len(vd.items) > 0,
   growth |-> IF ch.kind = "null" THEN NoGrowth
              ELSE predictGrowth(Coerce(v, ch.subscribers)),
   chart |-> chartData(v, ch),
   showLoading |-> ld, showError |-> FALSE,
   showChannel |-> ch.kind # "null"]

Render(v, ch, vd, ld, er) ==
  IF v = VBasic THEN RenderBasic(v, ch, vd, ld, er)
  ELSE RenderMetrics(v, ch, vd, ld, er)

(***************************************************************************)
(* AnalysisSession: the component state and the async function analyze.    *)
(***************************************************************************)
Queries == {"", "a", "b"}
FetchError == "Failed to fetch channel data"
Ids == 1..MaxCalls

\* an activation of analyze: where it stands, the query its closure read and
\* the channel response it holds (the const ch / chRes / channelRes)
Idle == [pc |-> "none", q |-> "", ch |-> NoChannel]
Activation(pc, q, ch) == [pc |-> pc, q |-> q, ch |-> ch]

\* the run of analyze that ran last: its name, the activation it
\* belongs to and, for a resolved video fetch, the kind of value it returned
Ran(op, i, kind) == [op |-> op, id |-> i, vd |-> kind]

NextId == 1 + Cardinality({i \in Ids : act[i].pc # "none"})

\* what the backend answers a request for query q with
Scenario == <<NumText(1200), Num(5000000), Num(50)>>
ChannelPayloads(q) ==
  {NoChannel, ChannelRecord(q, Scenario[1], Scenario[2], Scenario[3])}
VideoPayloads(q) ==
  {NonArray("null"), NonArray("string"), NonArray("object"), EmptyArray,
   Array(<<VideoRecord(q, 1, Num(5))>>)}

Init ==
  /\ variant \in Variants
  /\ query = ""
  /\ channel = NoChannel
  /\ videos = EmptyArray
  /\ loading = FALSE
  /\ error = ""
  /\ act = [i \in Ids |-> Idle]
  /\ fetches = 0
  /\ alerts = 0
  /\ last = Ran("mount", 0, "none")
  /\ view = Render(variant, NoChannel, EmptyArray, FALSE, "")

\* every run ends with a render of the new state
Rerender ==
  view' = Render(variant', channel', videos', loading', error')

\* onChange={(e) => setQuery(e.target.value)}
SetQuery(q) ==
  /\ q # query
  /\ query' = q
  /\ UNCHANGED <<variant, channel, videos, loading, error, act, fetches, alerts,
                 last>>
  /\ Rerender

\* the guard on the query left out: an empty query is analysed like any other
NoEarlyReturn(i) ==
  /\ query = ""
  /\ loading' = TRUE
  /\ error' = ""
  /\ channel' = NoChannel
  /\ videos' = EmptyArray
  /\ act' = [act EXCEPT ![i] = Activation("awaitChannel", query, NoChannel)]
  /\ fetches' = fetches + 1
  /\ UNCHANGED <<variant, query, alerts>>

\* if (!query) return;
EarlyReturn(i) ==
  /\ query = ""
  /\ act' = [act EXCEPT ![i] = Activation("returned", "", NoChannel)]
  /\ UNCHANGED <<variant, query, channel, videos, loading, error, fetches, alerts>>

\* a start that leaves the previous video list in place
StartKeepingVideos(i) ==
  /\ query # ""
  /\ loading' = TRUE
  /\ error' = ""
  /\ channel' = NoChannel
  /\ act' = [act EXCEPT ![i] = Activation("awaitChannel", query, NoChannel)]
  /\ fetches' = fetches + 1
  /\ UNCHANGED <<variant, query, videos, alerts>>

\* setLoading(true); setError(""); setChannel(null); setVideos([]); and the
\* GET of /api/channel, up to the first await
Start(i) ==
  /\ query # ""
  /\ loading' = TRUE
  /\ error' = ""
  /\ channel' = NoChannel
  /\ videos' = EmptyArray
  /\ act' = [act EXCEPT ![i] = Activation("awaitChannel", query, NoChannel)]
  /\ fetches' = fetches + 1
  /\ UNCHANGED <<variant, query, alerts>>

\* onClick={analyze}
Analyze ==
  /\ NextId <= MaxCalls
  /\ \/ EarlyReturn(NextId)
     \/ Start(NextId)
  /\ last' = Ran("analyze", NextId, "none")
  /\ Rerender

\* the channel shown as soon as it arrives, before the videos are fetched
ChannelResolvedEager(i, p) ==
  /\ act[i].pc = "awaitChannel"
  /\ act' = [act EXCEPT ![i] = Activation("awaitVideos", act[i].q, p)]
  /\ channel' = p
  /\ fetches' = fetches + 1
  /\ last' = Ran("channelResolved", i, "none")
  /\ UNCHANGED <<variant, query, videos, loading, error, alerts>>
  /\ Rerender

\* the channel fetch resolves: const ch = await axios.get(...), then the GET
\* of /api/videos up to the second await
ChannelResolved(i, p) ==
  /\ act[i].pc = "awaitChannel"
  /\ act' = [act EXCEPT ![i] = Activation("awaitVideos", act[i].q, p)]
  /\ fetches' = fetches + 1
  /\ last' = Ran("channelResolved", i, "none")
  /\ UNCHANGED <<variant, query, channel, videos, loading, error, alerts>>
  /\ Rerender

\* setLoading(false) written inside the try block: a failure skips it
CatchKeepsLoading(i) ==
  /\ IF variant = VBasic
     THEN alerts' = alerts + 1 /\ error' = error
     ELSE error' = FetchError /\ alerts' = alerts
  /\ act' = [act EXCEPT ![i] = Activation("done", act[i].q, NoChannel)]
  /\ UNCHANGED <<variant, query, channel, videos, loading, fetches>>

\* catch { setError("Failed to fetch channel data") } (App.jsx: alert(...)),
\* then setLoading(false)
Catch(i) ==
  /\ IF variant = VBasic
     THEN alerts' = alerts + 1 /\ error' = error
     ELSE error' = FetchError /\ alerts' = alerts
  /\ loading' = FALSE
  /\ act' = [act EXCEPT ![i] = Activation("done", act[i].q, NoChannel)]
  /\ UNCHANGED <<variant, query, channel, videos, fetches>>

\* the channel fetch rejects
ChannelRejected(i) ==
  /\ act[i].pc = "awaitChannel"
  /\ Catch(i)
  /\ last' = Ran("channelRejected", i, "none")
  /\ Rerender

\* Array.isArray(vd.data) ? vd.data : []   (App.jsx: videosRes.data)
StoredVideos(v, p) ==
  IF v = VBasic \/ p.kind = "array" THEN p ELSE EmptyArray

\* setChannel(ch.data || null); setVideos(...)
Apply(i, p) ==
  /\ channel' = act[i].ch
  /\ videos' = StoredVideos(variant, p)

\* the video fetch resolves: both results are stored, then setLoading(false)
VideosResolved(i, p) ==
  /\ act[i].pc = "awaitVideos"
  /\ Apply(i, p)
  /\ loading' = FALSE
  /\ act' = [act EXCEPT ![i] = Activation("done", act[i].q, NoChannel)]
  /\ last' = Ran("videosResolved", i, p.kind)
  /\ UNCHANGED <<variant, query, error, fetches, alerts>>
  /\ Rerender

\* the video fetch rejects
VideosRejected(i) ==
  /\ act[i].pc = "awaitVideos"
  /\ Catch(i)
  /\ last' = Ran("videosRejected", i, "none")
  /\ Rerender

Next ==
  \/ \E q \in Queries : SetQuery(q)
  \/ Analyze
  \/ \E i \in Ids : \E p \in ChannelPayloads(act[i].q) : ChannelResolved(i, p)
  \/ \E i \in Ids : ChannelRejected(i)
  \/ \E i \in Ids : \E p \in VideoPayloads(act[i].q) : VideosResolved(i, p)
  \/ \E i \in Ids : VideosRejected(i)

Spec == Init /\ [][Next]_vars

\* a pending fetch settles: the promise axios.get returned resolves or rejects
\* Whether an analysis finishes depends on each fetch succeeding or failing,
\* not on what a successful response carries: one response per query here.
ChannelSettles(i) ==
  \/ ChannelResolved(i, ChannelRecord(act[i].q, Scenario[1], Scenario[2], Scenario[3]))
  \/ ChannelRejected(i)
VideosSettles(i) ==
  \/ VideosResolved(i, Array(<<VideoRecord(act[i].q, 1, Num(5))>>))
  \/ VideosRejected(i)

LiveNext ==
  \/ \E q \in Queries : SetQuery(q)
  \/ Analyze
  \/ \E i \in Ids : ChannelSettles(i)
  \/ \E i \in Ids : VideosSettles(i)

\* The session when every issued fetch eventually succeeds or fails.  The
\* fairness conjuncts are WF_vars(ChannelSettles(i)) and
\* WF_vars(VideosSettles(i)) written out: a settle step is enabled exactly
\* while the activation waits on that fetch, and it always changes act.
SpecLive ==
  /\ Init /\ [][LiveNext]_vars
  /\ \A i \in Ids :
       /\ []<>(act[i].pc # "awaitChannel") \/ []<><<ChannelSettles(i)>>_vars
       /\ []<>(act[i].pc # "awaitVideos") \/ []<><<VideosSettles(i)>>_vars

(***************************************************************************)
(* The derivation layer on its own: one analysis, answered with any        *)
(* channel record over FieldValues or any video list over ViewValues.      *)
(***************************************************************************)
FieldValues ==
  {Undef, Null, Text, NumText(1200), Num(0), Num(50), Num(-50), Num(5000000),
   Inf}
ViewValues == {Undef, Num(-3), Num(0), Num(5), NumText(5), Num(9), Inf}

WideChannels(q) ==
  {NoChannel} \cup
  {ChannelRecord(q, s, v, n) : s \in FieldValues, v \in FieldValues,
                              n \in FieldValues}

\* the lists of at most MaxVideos records, videoId being the place in the list
VideoLists(q) ==
  {Array([k \in 1..Len(f) |-> VideoRecord(q, k, f[k])]) :
     f \in UNION {[1..m -> ViewValues] : m \in 0..MaxVideos}}

\* the video lists are tried with the scenario's channel
WideVideos(q, ch) ==
  IF ch = ChannelRecord(q, Scenario[1], Scenario[2], Scenario[3])
  THEN VideoLists(q)
  ELSE {EmptyArray}

DeriveNext ==
  \/ \E q \in {"", "a"} : SetQuery(q)
  \/ NextId = 1 /\ Analyze
  \/ /\ act[1].pc = "awaitChannel"
     /\ \E p \in WideChannels(act[1].q) : ChannelResolved(1, p)
  \/ /\ act[1].pc = "awaitVideos"
     /\ \E p \in WideVideos(act[1].q, act[1].ch) : VideosResolved(1, p)

SpecDerive == Init /\ [][DeriveNext]_vars

(***************************************************************************)
(* Claims.                                                                 *)
(***************************************************************************)
InFlight(i) == act[i].pc \in {"awaitChannel", "awaitVideos"}
Populated == channel.kind = "object" \/ videos # EmptyArray

\* C1: whatever the order in which the fetches of overlapping analyses settle,
\* the stored channel and the stored video list come from the same query: no
\* state holds one query's channel with another query's videos.
C1_ChannelAndVideosSameQuery ==
  channel.kind = "object" =>
    \A k \in 1..Len(videos.items) : videos.items[k].src = channel.src

\* C1 witness: analyses of "a" and then "b" have both finished, and the one
\* of "a" stored its channel and its videos last; the start of "b" cleared
\* the session, so "a" resolved while "b" was already under way.
C1_Witness ==
  /\ act[1].pc = "done" /\ act[1].q = "a"
  /\ act[2].pc = "done" /\ act[2].q = "b"
  /\ last = Ran("videosResolved", 1, "array")
  /\ channel.kind = "object" /\ channel.src = "a"
  /\ Len(videos.items) > 0

\* C2: in every state exactly one of loading, populated, error, all-empty
\* describes the session: loading excludes a populated channel or video list
\* and an error, and an error excludes a populated channel or video list.
C2_ExactlyOneDescription ==
  variant # VBasic =>
    /\ loading => ~Populated /\ error = ""
    /\ error # "" => ~Populated

\* C3: a run of analyze with a non-empty query leaves the channel absent, the
\* videos empty and the error empty with its first fetch in flight, and a run
\* that stores the results of an analysis leaves nothing of another query
\* behind.
C3_ResetBeforeResults ==
  /\ \A i \in Ids :
       last = Ran("analyze", i, "none") /\ act[i].pc = "awaitChannel" =>
         /\ channel = NoChannel /\ videos = EmptyArray /\ error = ""
         /\ loading /\ fetches > 0
  /\ \A i \in Ids :
       last.op = "videosResolved" /\ last.id = i =>
         /\ act[i].pc = "done"
         /\ channel.src \in {"", act[i].q}
         /\ \A k \in 1..Len(videos.items) : videos.items[k].src = act[i].q

\* C3 witness: the first analysis completed with both fetches and a second
\* analyze has just run and waits for its channel.
C3_Witness ==
  /\ act[1].pc = "done" /\ fetches = 3
  /\ act[2].pc = "awaitChannel"
  /\ last = Ran("analyze", 2, "none")

\* C4: after the catch of a failed fetch the error is a non-empty message,
\* the channel is absent and the videos are empty.
C4_FailureLeavesSessionEmpty ==
  variant # VBasic /\ last.op \in {"channelRejected", "videosRejected"} =>
    error # "" /\ channel = NoChannel /\ videos = EmptyArray

\* C5: after a video fetch resolved with a value that is not an array, the
\* stored videos are the empty sequence, the render raises no fault and the
\* video panel is not rendered, in every variant.
C5_NonArrayVideosAreEmpty ==
  last.op = "videosResolved" /\ last.vd # "array" =>
    videos = EmptyArray /\ ~view.fault /\ ~view.videoPanel

\* C6: a run of analyze with an empty query issues no fetch and changes none
\* of query, channel, videos, loading and error; and no fetch has been issued
\* as long as no analyze has run with a non-empty query.
C6_EmptyQueryIssuesNothing ==
  /\ []((\A i \in Ids : act[i].pc \in {"none", "returned"}) => fetches = 0)
  /\ [][\A i \in Ids :
          query = "" /\ act[i].pc = "none" /\ act'[i].pc # "none" =>
            UNCHANGED <<query, channel, videos, loading, error, fetches>>]_vars

\* C6 witness: analyze has run with an empty query after an earlier analysis
\* had stored a channel, which is still there.
C6_Witness ==
  /\ act[1].pc = "done" /\ act[2].pc = "returned"
  /\ last = Ran("analyze", 2, "none")
  /\ channel.kind = "object" /\ fetches = 2

\* C7: whenever the channel is absent or its subscribers, views and videos
\* are each absent, text or a finite number, the health score of the render is
\* a number from 0 to 100.
C7_HealthScoreInRange ==
  /\ variant # VBasic
  /\ \A f \in {"subscribers", "views", "videos"} : Field(channel, f) # Inf
  => /\ view.healthScore.t = "num"
     /\ 0 <= view.healthScore.n /\ view.healthScore.n <= 100

\* C8: subs, views and vids of every render are finite numbers >= 0, and
\* exactly 0 when the field is absent, null or non-numeric text.
C8_CoercedFiniteNonNegative ==
  variant # VBasic =>
    LET used == [subscribers |-> view.subs, views |-> view.views,
                 videos |-> view.vids] IN
    \A f \in {"subscribers", "views", "videos"} :
      /\ IsFinite(used[f]) /\ used[f].n >= 0
      /\ Field(channel, f) \in {Undef, Null, Text} => used[f] = Num(0)

\* the reference ranking's order: the views a record counts with, Infinity
\* above every number
ViewsAbove(a, b) ==
  LET x == ToNumber(a.views)
      y == ToNumber(b.views) IN
  IF x.t = "inf" THEN y.t # "inf" ELSE y.t # "inf" /\ x.n > y.n
ViewsEqual(a, b) == ~ViewsAbove(a, b) /\ ~ViewsAbove(b, a)
Ranked == {videos.items[k] : k \in 1..Len(videos.items)}
Positive == {x \in Ranked : Gt0(CoerceThenDefault(x.views))}

\* C9: topVideos holds at most 3 records, each with views > 0, in
\* non-increasing order of views, records with equal views in input order,
\* and every record with views > 0 that is left out ranks behind all of them.
C9_TopVideosAreTheStableTop3 ==
  variant # VBasic =>
    LET top == view.topVideos IN
    /\ Len(top) <= 3
    /\ \A k \in 1..Len(top) : top[k] \in Positive
    /\ \A j \in 1..Len(top) : \A k \in 1..Len(top) :
         j < k => \/ ViewsAbove(top[j], top[k])
                  \/ ViewsEqual(top[j], top[k])
                     /\ top[j].videoId < top[k].videoId
    /\ \A x \in Positive :
         (\A k \in 1..Len(top) : top[k] # x) =>
           /\ Len(top) = 3
           /\ \A k \in 1..Len(top) :
                \/ ViewsAbove(top[k], x)
                \/ ViewsEqual(top[k], x) /\ top[k].videoId < x.videoId

\* C9 witness: four records with views > 0 were ranked, one was cut off, and
\* the top 3 hold two records with equal views.
C9_Witness ==
  /\ variant = VNormChart
  /\ Cardinality(Positive) = 4
  /\ Len(view.topVideos) = 3
  /\ \E j \in 1..3 : \E k \in 1..3 :
       j < k /\ ViewsEqual(view.topVideos[j], view.topVideos[k])

\* C10: the growth prediction shown for a channel is a pair of integers with
\* 0 <= min <= max and min at most 1% of the subscribers, {0, 0} when the
\* subscribers field is missing or not numeric; predictGrowth(1000) is
\* {10, 30} and predictGrowth(0) is {0, 0}.
C10_GrowthRange ==
  /\ predictGrowth(Num(1000)) = [min |-> Num(10), max |-> Num(30)]
  /\ predictGrowth(Num(0)) = [min |-> Num(0), max |-> Num(0)]
  /\ variant = VBasic /\ channel.kind = "object" =>
       LET g == view.growth
           subs == CoerceThenDefault(channel.subscribers) IN
         /\ g.min.t = "num" /\ g.max.t = "num"
         /\ 0 <= g.min.n /\ g.min.n <= g.max.n
         /\ subs.t = "num" => 100 * g.min.n <= subs.n
         /\ channel.subscribers \in {Undef, Text} =>
              g = [min |-> Num(0), max |-> Num(0)]

\* the variants that build a chart dataset
ChartVariants == {VLogChart, VNormChart, VBasic}
ZeroTotals ==
  /\ channel.kind = "object"
  /\ \A v \in ChartVariants : \A f \in {"subscribers", "views", "videos"} :
       Coerce(v, channel[f]) = Num(0)

\* C11: for a channel record whose three coerced totals are zero, the chart
\* dataset of the render is what every other variant builds from the same
\* record: all omit it, or all present it with three zero bars.
C11_SameZeroChartPolicy ==
  ZeroTotals /\ variant \in ChartVariants =>
    \A w \in ChartVariants :
      /\ chartData(w, channel).shown = view.chart.shown
      /\ view.chart.shown =>
           \A k \in 1..3 : view.chart.data[k] = Bar(Num(0))

\* C12: loading is true in every state in which an analysis has been started
\* and has not finished.
C12_LoadingWhileInFlight ==
  (\E i \in Ids : InFlight(i)) => loading

\* C13: once two analyses of different queries have both run their two
\* fetches and finished without an error, what is stored is the result of the
\* one triggered second.
C13_LatestQueryWins ==
  /\ variant # VBasic
  /\ act[1].pc = "done" /\ act[2].pc = "done" /\ act[1].q # act[2].q
  /\ \A i \in Ids \ {1, 2} : act[i].pc = "none"
  /\ fetches = 4 /\ error = ""
  => /\ channel.src \in {"", act[2].q}
     /\ \A k \in 1..Len(videos.items) : videos.items[k].src = act[2].q

\* C14: when every issued fetch settles, every analysis started with a
\* non-empty query finishes; whenever no analysis is in flight loading is
\* false, and loading only turns true in a run of analyze that starts an
\* analysis.
C14_AnalysesFinishAndLoadingEnds ==
  /\ \A i \in Ids : InFlight(i) ~> act[i].pc = "done"
  /\ []((\A i \in Ids : ~InFlight(i)) => ~loading)
  /\ [][~loading /\ loading' =>
          \E i \in Ids : act[i].pc = "none" /\ act'[i].pc = "awaitChannel"]_vars

\* C14 witness: one analysis ended on a rejected channel fetch, the other on
\* a rejected video fetch; nothing is in flight and loading is off.
C14_Witness ==
  /\ act[1].pc = "done" /\ act[2].pc = "done"
  /\ fetches = 3
  /\ last.op \in {"channelRejected", "videosRejected"}
  /\ ~loading

====
